---- MODULE Spec2Model ----
(***************************************************************************)
(* Model of the collaborative canvas of src/vite.config.js (component App) *)
(* together with the document store it talks to.  Every client runs the    *)
(* same component; the store is the Firestore collection                   *)
(* artifacts/<appId>/public/data/drawings.                                 *)
(*                                                                         *)
(* The pixel surface of a client is modelled as its display list: the      *)
(* primitives painted since the last clearRect, in paint order.  Painting  *)
(* a primitive that is already on the list moves it to the top (an opaque  *)
(* repaint of the same pixels), so two loads of the same image by two      *)
(* replays are one pending load.                                           *)
(*                                                                         *)
(* Snapshots are modelled from the store's committed state; the local      *)
(* echo of a client's own pending write is not modelled.                   *)
(***************************************************************************)
EXTENDS Integers, Sequences, FiniteSets, TLC

\* ------------------------------------------------------------------ bounds
\* The query's limit(500) (line 188), scaled so that a collection larger
\* than the window is reachable.
Limit == 2
\* Total number of add() calls the clients make.
MaxWrites == 3
\* Total number of requests the store (or the image service) rejects.
MaxFaults == 1
\* Number of segments the painter draws in the teardown and the clear-race
\* scenarios.
MaxDrawn == 1
\* Number of drag-moves in the drag scenario.
MaxMoves == 2

Clients == {"A", "B"}
\* The clients whose user paints, adds images and clears; every client
\* subscribes, replays and resizes.
Painters == {"A"}
Clearers == {"A"}

\* Pointer positions relative to the canvas (e.clientX - rect.left, ...):
\* where a drag starts, and where it moves to.
DragStarts == {<<10, 10>>}
DragMoves == {<<500, 500>>}
\* The pointer positions and brush sizes of the drag scenario.
PenMoves == {<<500, 500>>, <<40, 50>>}
PenSizes == {5, 10}
Colors == {"#000000", "#ff0000"}
Sizes == {5}
Tools == {"brush", "eraser"}
Prompts == {"", " ", "a cat"}
\* Surface sizes a resize can produce, and the intrinsic size of the
\* generated asset.
SurfaceSizes == {<<1000, 1000>>}
AssetSizes == {<<400, 200>>}
\* The same for the placement scenario.
PlaceSurfaceSizes == {<<1000, 1000>>, <<600, 420>>, <<301, 700>>}
PlaceAssetSizes == {<<400, 200>>, <<1024, 1024>>, <<100, 300>>}

\* ---------------------------------------------------------------- values
NoUser == "null"
\* A listener that has not fired yet.
NoSnap == [fired |-> FALSE, snapshot |-> <<>>]
Snap(d) == [fired |-> TRUE, snapshot |-> d]
\* firebase.firestore.FieldValue.serverTimestamp(): a sentinel the store
\* replaces by its own clock on write.
ServerTimestamp == "serverTimestamp"
DataUrl == "data:image/png;base64,AAAA"

ErrSdk == "Firebase SDK not loaded. Please ensure it's included in index.html."
ErrSignIn == "Failed to sign in. Please try again."
ErrLoad == "Failed to load drawing data. Check console for details."
ErrStroke == "Failed to save stroke. Please check your connection."
ErrClear == "Failed to clear canvas. Please try again."
ErrPrompt == "Please enter a prompt for AI image generation."
ErrNoImage == "No image generated. Please try a different prompt."
ErrGenerate == "Error generating image: API error."
ErrAddImage == "Failed to add image to shared canvas."

Uid(c) == IF c = "A" THEN "uid-A" ELSE "uid-B"
\* The identity of another session of the same browser.
OtherUid(c) == IF c = "A" THEN "uid-A2" ELSE "uid-B2"

Min(a, b) == IF a < b THEN a ELSE b

\* ------------------------------------------------------------- the state
VARIABLES
    docs,               \* the collection: documents [id, data] by ascending timestamp
    clock,              \* the store's clock: the last serverTime it assigned
    inflight,           \* add() requests sent and not yet answered
    writes,             \* number of add() calls made so far
    faults,             \* number of rejections so far
    db,                 \* per client: the store handle is set
    userId,             \* per client: the session identity, or NoUser
    live,               \* per client: the snapshot listener is registered
    seen,               \* per client: the last snapshot its listener was handed
    drawingData,        \* per client
    surface,            \* per client: the display list of the canvas
    loads,              \* per client: image loads started by redrawCanvas
    canvasDims,         \* per client: <<canvas.width, canvas.height>>
    assetDims,          \* <<img.width, img.height>> of the generated asset
    isDrawing, lastXY, currentTool, brushColor, brushSize,
    aiPrompt, generatedImageUrl, isLoadingAI, errorMessage,
    clearPc,            \* per client: where its clearCanvas call is
    clearBatch,         \* per client: the document ids its clearCanvas read
    authPc,             \* per client: where its sign-in is
    genPc,              \* per client: where its generateImage call is
    addLoad,            \* per client: the image loads addImageToCanvas started
    mounted,            \* per client: the component has not been torn down
    subs,               \* per client: snapshot listeners registered and not ended
    pcmData,            \* the samples handed to pcmToWav
    sampleRate,         \* the sample rate handed to pcmToWav
    wav                 \* the bytes of the Blob pcmToWav returned, if it has run

storeVars == <<docs, clock, inflight, writes, faults>>
syncVars == <<db, userId, authPc, live, seen, drawingData>>
canvasVars == <<surface, loads, canvasDims, assetDims>>
penVars == <<isDrawing, lastXY, currentTool, brushColor, brushSize>>
aiVars == <<aiPrompt, generatedImageUrl, isLoadingAI, genPc>>
clearVars == <<clearPc, clearBatch>>
lifeVars == <<mounted, subs>>
wavVars == <<pcmData, sampleRate, wav>>
vars == <<storeVars, syncVars, canvasVars, penVars, aiVars, clearVars,
          errorMessage, addLoad, lifeVars, wavVars>>

\* ------------------------------------------------------------ the records
IsSegment(stroke) ==
    {"x1", "y1", "x2", "y2"} \subseteq DOMAIN stroke

IsImage(stroke) ==
    /\ ~IsSegment(stroke)
    /\ {"type", "url"} \subseteq DOMAIN stroke
    /\ stroke.type = "image"
    /\ stroke.url # ""

LineOp(stroke) ==
    [op |-> "line", x1 |-> stroke.x1, y1 |-> stroke.y1, x2 |-> stroke.x2,
     y2 |-> stroke.y2, color |-> stroke.color, size |-> stroke.size]

ImageOp(stroke) ==
    [op |-> "image", url |-> stroke.url, x |-> stroke.x, y |-> stroke.y,
     width |-> stroke.width, height |-> stroke.height]

\* ctx.stroke() / ctx.drawImage(): the primitive goes on top.
Paint(s, o) == SelectSeq(s, LAMBDA p : p # o) \o <<o>>

\* A replay that gives up at the first record it cannot decode.
RECURSIVE PaintSegmentsStrict(_, _)
PaintSegmentsStrict(s, data) ==
    IF data = <<>> THEN s
    ELSE IF IsSegment(Head(data))
         THEN PaintSegmentsStrict(Paint(s, LineOp(Head(data))), Tail(data))
         ELSE IF IsImage(Head(data)) THEN PaintSegmentsStrict(s, Tail(data)) ELSE s

RECURSIVE PaintSegments(_, _)
PaintSegments(s, data) ==
    IF data = <<>> THEN s
    ELSE PaintSegments(IF IsSegment(Head(data)) THEN Paint(s, LineOp(Head(data))) ELSE s,
                       Tail(data))

ImageLoads(data) ==
    {ImageOp(data[i]) : i \in {j \in DOMAIN data : IsImage(data[j])}}

\* redrawCanvas(dataToDraw): what is on the canvas when it returns, and the
\* image loads it has started.
RedrawSurface(data) == PaintSegments(<<>>, data)
RedrawLoads(data) == ImageLoads(data)

\* -------------------------------------------------------------- geometry
\* JavaScript numbers are modelled as exact rationals <<n, d>>, d > 0, in
\* lowest terms.
RECURSIVE GCD(_, _)
GCD(a, b) == IF b = 0 THEN a ELSE GCD(b, a % b)

Abs(a) == IF a < 0 THEN -a ELSE a

Rat(n, d) ==
    LET g == GCD(Abs(n), d) IN IF g = 0 THEN <<0, 1>> ELSE <<n \div g, d \div g>>

RatLess(p, q) == p[1] * q[2] < q[1] * p[2]
RatMin(p, q) == IF RatLess(q, p) THEN q ELSE p
RatMul(p, q) == Rat(p[1] * q[1], p[2] * q[2])
RatDiv(p, q) == Rat(p[1] * q[2], p[2] * q[1])
RatSub(p, q) == Rat(p[1] * q[2] - q[1] * p[2], p[2] * q[2])
Int2Rat(n) == <<n, 1>>

\* A placement that always takes half the surface width.
ImgWidthHalf(cw, iw) == RatDiv(Int2Rat(cw), Int2Rat(2))

\* img.onload of addImageToCanvas, lines 351-354.
ImgWidth(cw, iw) == RatMin(Int2Rat(iw), RatDiv(Int2Rat(cw), Int2Rat(2)))
\* A height taken from the asset as it is.
ImgHeightUnscaled(cw, iw, ih) == Int2Rat(ih)

ImgHeight(cw, iw, ih) == RatMul(RatDiv(Int2Rat(ih), Int2Rat(iw)), ImgWidth(cw, iw))
ImgX(cw, iw) == RatDiv(RatSub(Int2Rat(cw), ImgWidth(cw, iw)), Int2Rat(2))
ImgY(cw, ch, iw, ih) == RatDiv(RatSub(Int2Rat(ch), ImgHeight(cw, iw, ih)), Int2Rat(2))

\* ------------------------------------------------------------- the store
\* q = orderBy('timestamp', 'asc').limit(500): the first Limit documents in
\* ascending timestamp order.
Window(d) == SubSeq(d, 1, Min(Len(d), Limit))

\* A callback that lists the records newest first.
SnapshotDataReversed(snapshot) ==
    [i \in DOMAIN snapshot |-> snapshot[Len(snapshot) + 1 - i].data]

\* snapshot.forEach(doc => data.push(doc.data()))
SnapshotData(snapshot) == [i \in DOMAIN snapshot |-> snapshot[i].data]

\* A commit that deletes whatever the collection holds when it runs.
CommitDeletesAll(d, batch) == <<>>

\* batch.delete(doc.ref) for every document read; batch.commit()
CommitDeletes(d, batch) == SelectSeq(d, LAMBDA doc : doc.id \notin batch)

DocIds(d) == {d[i].id : i \in DOMAIN d}

\* ------------------------------------------------- records of other origin
\* Documents the collection may hold that this component did not write: a
\* segment, an image, and records that are neither (a segment without y2,
\* an image marker with an empty url, a record of another kind).
LegacySegment ==
    [x1 |-> 0, y1 |-> 0, x2 |-> 100, y2 |-> 100, color |-> "#ff0000", size |-> 5,
     userId |-> "uid-B", timestamp |-> ServerTimestamp]
LegacyImage ==
    [type |-> "image", url |-> DataUrl, x |-> Int2Rat(300), y |-> Int2Rat(400),
     width |-> Int2Rat(400), height |-> Int2Rat(200), userId |-> "uid-B",
     timestamp |-> ServerTimestamp]
LegacyMalformed ==
    { [x1 |-> 0, y1 |-> 0, x2 |-> 100, color |-> "#ff0000", size |-> 5,
       userId |-> "uid-B", timestamp |-> ServerTimestamp],
      [type |-> "image", url |-> "", x |-> Int2Rat(300), y |-> Int2Rat(400),
       width |-> Int2Rat(400), height |-> Int2Rat(200), userId |-> "uid-B",
       timestamp |-> ServerTimestamp],
      [type |-> "text", userId |-> "uid-B", timestamp |-> ServerTimestamp] }
LegacyRecords == {LegacySegment, LegacyImage} \cup LegacyMalformed

\* A second segment, crossing the first, in another color.
CrossSegment ==
    [x1 |-> 100, y1 |-> 0, x2 |-> 0, y2 |-> 100, color |-> "#000000", size |-> 5,
     userId |-> "uid-B", timestamp |-> ServerTimestamp]
\* The contents of a collection of segments.
SegmentLists == UNION {[1..n -> {LegacySegment, CrossSegment}] : n \in 0..Limit}
\* What a canvas may show when a replay begins: nothing, the lines of
\* earlier draws and replays, an image of an earlier replay.
PriorSurfaces ==
    {<<>>, <<LineOp(LegacySegment)>>, <<LineOp(CrossSegment), LineOp(LegacySegment)>>,
     <<LineOp(CrossSegment)>>, <<ImageOp(LegacyImage)>>}

\* The contents of a collection that holds at least one such record that
\* is neither a segment nor an image.
LegacyLists ==
    {l \in UNION {[1..n -> LegacyRecords] : n \in 1..Limit} :
        \E i \in DOMAIN l : l[i] \in LegacyMalformed}

\* The collection after the documents of l were added, in this order.
Stored(l) == [i \in DOMAIN l |-> [id |-> <<"B", i>>, data |-> [l[i] EXCEPT !.timestamp = i]]]

\* ------------------------------------------------------------------ Init
InitStore ==
    /\ docs = <<>>
    /\ clock = 0
    /\ inflight = {}
    /\ writes = 0
    /\ faults = 0

\* The component after its mount effects: the handles are set and the
\* sign-in is under way.
InitAuth ==
    /\ db = [c \in Clients |-> TRUE]
    /\ userId = [c \in Clients |-> NoUser]
    /\ authPc = [c \in Clients |-> "signing-in"]
    /\ live = [c \in Clients |-> FALSE]
    /\ seen = [c \in Clients |-> NoSnap]
    /\ subs = [c \in Clients |-> 0]

\* Every client signed in (SignedIn has run): its listener is registered
\* and has not fired yet.
InitSignedIn ==
    /\ db = [c \in Clients |-> TRUE]
    /\ userId = [c \in Clients |-> Uid(c)]
    /\ authPc = [c \in Clients |-> "done"]
    /\ live = [c \in Clients |-> TRUE]
    /\ seen = [c \in Clients |-> NoSnap]
    /\ subs = [c \in Clients |-> 1]

\* pcmToWav has not been called.
InitNoWav ==
    /\ pcmData = <<>>
    /\ sampleRate = 0
    /\ wav = <<>>

InitClient ==
    /\ drawingData = [c \in Clients |-> <<>>]
    /\ surface = [c \in Clients |-> <<>>]
    /\ loads = [c \in Clients |-> {}]
    /\ isDrawing = [c \in Clients |-> FALSE]
    /\ lastXY = [c \in Clients |-> <<0, 0>>]
    /\ currentTool = [c \in Clients |-> "brush"]
    /\ brushColor = [c \in Clients |-> "#000000"]
    /\ brushSize = [c \in Clients |-> 5]
    /\ isLoadingAI = [c \in Clients |-> FALSE]
    /\ genPc = [c \in Clients |-> "idle"]
    /\ errorMessage = [c \in Clients |-> ""]
    /\ clearPc = [c \in Clients |-> "idle"]
    /\ clearBatch = [c \in Clients |-> {}]
    /\ addLoad = [c \in Clients |-> {}]
    /\ mounted = [c \in Clients |-> TRUE]

InitNoImage ==
    /\ aiPrompt = [c \in Clients |-> ""]
    /\ generatedImageUrl = [c \in Clients |-> ""]

\* The painters have generated an image (SetAiPrompt, GenerateImage and
\* GenerateOk have run).
InitGenerated ==
    /\ aiPrompt = [c \in Clients |-> IF c \in Painters THEN "a cat" ELSE ""]
    /\ generatedImageUrl = [c \in Clients |-> IF c \in Painters THEN DataUrl ELSE ""]

\* The synchronisation scenario: every client is signed in and subscribed,
\* and the painters hold a generated image.
Init ==
    /\ InitStore
    /\ InitSignedIn
    /\ InitClient
    /\ InitNoWav
    /\ InitGenerated
    /\ canvasDims \in [Clients -> SurfaceSizes]
    /\ assetDims \in AssetSizes

\* Client A alone is signed in and subscribed.
InitSoloAuth ==
    /\ db = [c \in Clients |-> TRUE]
    /\ userId = [c \in Clients |-> IF c = "A" THEN Uid(c) ELSE NoUser]
    /\ authPc = [c \in Clients |-> IF c = "A" THEN "done" ELSE "signing-in"]
    /\ live = [c \in Clients |-> c = "A"]
    /\ seen = [c \in Clients |-> NoSnap]
    /\ subs = [c \in Clients |-> IF c = "A" THEN 1 ELSE 0]

InitSolo ==
    /\ InitStore
    /\ InitSoloAuth
    /\ InitClient
    /\ InitNoWav
    /\ InitGenerated
    /\ canvasDims \in [Clients -> SurfaceSizes]
    /\ assetDims \in AssetSizes

InitPlace ==
    /\ InitStore
    /\ InitSoloAuth
    /\ InitClient
    /\ InitNoWav
    /\ InitGenerated
    /\ canvasDims \in [Clients -> PlaceSurfaceSizes]
    /\ assetDims \in PlaceAssetSizes

\* Client A alone is subscribed, to a collection that holds records of
\* other origin.
InitLegacy ==
    /\ \E l \in LegacyLists : docs = Stored(l) /\ clock = Len(l)
    /\ inflight = {}
    /\ writes = 0
    /\ faults = 0
    /\ InitSoloAuth
    /\ InitClient
    /\ InitNoWav
    /\ InitGenerated
    /\ canvasDims \in [Clients -> SurfaceSizes]
    /\ assetDims \in AssetSizes

\* The component after its first render, before its mount effects.
InitMount ==
    /\ db = [c \in Clients |-> FALSE]
    /\ userId = [c \in Clients |-> NoUser]
    /\ authPc = [c \in Clients |-> "mounting"]
    /\ live = [c \in Clients |-> FALSE]
    /\ seen = [c \in Clients |-> NoSnap]
    /\ subs = [c \in Clients |-> 0]

InitLife ==
    /\ InitStore
    /\ InitMount
    /\ InitClient
    /\ InitNoWav
    /\ InitNoImage
    /\ canvasDims \in [Clients -> SurfaceSizes]
    /\ assetDims \in AssetSizes

\* Two subscribed clients whose canvases show something already, and a
\* collection of segments.
InitReplay ==
    /\ \E l \in SegmentLists : docs = Stored(l) /\ clock = Len(l)
    /\ inflight = {}
    /\ writes = 0
    /\ faults = 0
    /\ InitSignedIn
    /\ InitNoImage
    /\ drawingData = [c \in Clients |-> <<>>]
    /\ surface \in [Clients -> PriorSurfaces]
    /\ loads = [c \in Clients |-> {}]
    /\ isDrawing = [c \in Clients |-> FALSE]
    /\ lastXY = [c \in Clients |-> <<0, 0>>]
    /\ currentTool = [c \in Clients |-> "brush"]
    /\ brushColor = [c \in Clients |-> "#000000"]
    /\ brushSize = [c \in Clients |-> 5]
    /\ isLoadingAI = [c \in Clients |-> FALSE]
    /\ genPc = [c \in Clients |-> "idle"]
    /\ errorMessage = [c \in Clients |-> ""]
    /\ clearPc = [c \in Clients |-> "idle"]
    /\ clearBatch = [c \in Clients |-> {}]
    /\ addLoad = [c \in Clients |-> {}]
    /\ mounted = [c \in Clients |-> TRUE]
    /\ InitNoWav
    /\ canvasDims \in [Clients -> SurfaceSizes]
    /\ assetDims \in AssetSizes

\* The component right after its mount effects.
InitBoot ==
    /\ InitStore
    /\ InitAuth
    /\ InitClient
    /\ InitNoWav
    /\ InitNoImage
    /\ canvasDims \in [Clients -> SurfaceSizes]
    /\ assetDims \in AssetSizes

\* ------------------------------------------------------------ React state
\* A useState setter called from a continuation of client c: React drops
\* the update of a component that has been unmounted.
SetStateAlways(c, old, new) == new

SetState(c, old, new) == IF mounted[c] THEN new ELSE old

\* --------------------------------------------------------- authentication
\* The mount effect, lines 112-146: with the SDK loaded it sets the handles
\* and registers the auth listener, without it it reports the error.
AuthEffect(c, sdk) ==
    /\ mounted[c]
    /\ authPc[c] = "mounting"
    /\ IF sdk
       THEN /\ db' = [db EXCEPT ![c] = TRUE]
            /\ authPc' = [authPc EXCEPT ![c] = "signing-in"]
            /\ UNCHANGED <<errorMessage, faults>>
       ELSE /\ faults < MaxFaults
            /\ faults' = faults + 1
            /\ errorMessage' = [errorMessage EXCEPT ![c] = ErrSdk]
            /\ authPc' = [authPc EXCEPT ![c] = "no-sdk"]
            /\ UNCHANGED db
    /\ UNCHANGED <<wavVars, docs, clock, inflight, writes, userId, live, seen, drawingData,
                   canvasVars, penVars, aiVars, clearVars, addLoad, lifeVars>>

\* onAuthStateChanged(user) with a user, after the sign-in the listener
\* started; the Firestore effect then runs with db and userId set.
SignedIn(c) ==
    /\ mounted[c]
    /\ authPc[c] = "signing-in"
    /\ authPc' = [authPc EXCEPT ![c] = "done"]
    /\ userId' = [userId EXCEPT ![c] = Uid(c)]
    /\ live' = [live EXCEPT ![c] = db[c]]
    /\ subs' = [subs EXCEPT ![c] = IF db[c] THEN @ + 1 ELSE @]
    /\ seen' = [seen EXCEPT ![c] = NoSnap]
    /\ UNCHANGED <<wavVars, mounted, storeVars, db, drawingData, canvasVars, penVars, aiVars,
                   clearVars, errorMessage, addLoad>>

SignInFailed(c) ==
    /\ authPc[c] = "signing-in"
    /\ faults < MaxFaults
    /\ faults' = faults + 1
    /\ authPc' = [authPc EXCEPT ![c] = "failed"]
    /\ errorMessage' = [errorMessage EXCEPT ![c] = SetState(c, @, ErrSignIn)]
    /\ UNCHANGED <<wavVars, lifeVars, docs, clock, inflight, writes, db, userId, live, seen,
                   drawingData, canvasVars, penVars, aiVars, clearVars, addLoad>>

\* ----------------------------------------------------------- subscription
\* A callback that appends to what it holds and draws over what is there.
OnSnapshotMerge(c, snapshot) ==
    LET data == SnapshotData(snapshot) IN
    /\ drawingData' = [drawingData EXCEPT ![c] = @ \o data]
    /\ surface' = [surface EXCEPT ![c] = PaintSegments(@, data)]
    /\ loads' = [loads EXCEPT ![c] = @ \cup RedrawLoads(data)]

\* A callback whose replay draws over what the canvas shows.
OnSnapshotOver(c, snapshot) ==
    LET data == SnapshotData(snapshot) IN
    /\ drawingData' = [drawingData EXCEPT ![c] = data]
    /\ surface' = [surface EXCEPT ![c] = PaintSegments(@, data)]
    /\ loads' = [loads EXCEPT ![c] = @ \cup RedrawLoads(data)]

\* The onSnapshot callback, and the resize effect its setDrawingData(data)
\* re-runs (canvas reset, redrawCanvas(drawingData)).
OnSnapshot(c, snapshot) ==
    LET data == SnapshotData(snapshot) IN
    /\ drawingData' = [drawingData EXCEPT ![c] = data]
    /\ surface' = [surface EXCEPT ![c] = RedrawSurface(data)]
    /\ loads' = [loads EXCEPT ![c] = @ \cup RedrawLoads(data)]

\* The listeners of c that are left when the effect's cleanup has run.
UnsubscribedNone(c) == subs[c]

\* return () => unsubscribe(), line 202.
Unsubscribed(c) == IF live[c] THEN subs[c] - 1 ELSE subs[c]

\* onAuthStateChanged(user) with the user of another session: userId
\* changes, so the listener effect is cleaned up and run again.
UserChanged(c) ==
    /\ mounted[c]
    /\ authPc[c] = "done"
    /\ userId[c] = Uid(c)
    /\ userId' = [userId EXCEPT ![c] = OtherUid(c)]
    /\ subs' = [subs EXCEPT ![c] = IF db[c] THEN Unsubscribed(c) + 1 ELSE Unsubscribed(c)]
    /\ live' = [live EXCEPT ![c] = subs'[c] > 0]
    /\ seen' = [seen EXCEPT ![c] = NoSnap]
    /\ UNCHANGED <<wavVars, storeVars, db, authPc, drawingData, canvasVars, penVars, aiVars,
                   clearVars, errorMessage, addLoad, mounted>>

\* The component is torn down: the cleanups of its effects run (lines 145,
\* 202, 274), and no handler of the interface runs any more.
Unmount(c) ==
    /\ mounted[c]
    /\ mounted' = [mounted EXCEPT ![c] = FALSE]
    /\ subs' = [subs EXCEPT ![c] = Unsubscribed(c)]
    /\ live' = [live EXCEPT ![c] = subs'[c] > 0]
    /\ UNCHANGED <<wavVars, storeVars, db, userId, authPc, seen, drawingData, canvasVars,
                   penVars, aiVars, clearVars, errorMessage, addLoad>>

\* The listener fires when the query's result has changed (and once after
\* it is registered).
Deliver(c) ==
    /\ live[c]
    /\ seen[c] # Snap(Window(docs))
    /\ seen' = [seen EXCEPT ![c] = Snap(Window(docs))]
    /\ OnSnapshot(c, Window(docs))
    /\ UNCHANGED <<wavVars, lifeVars, storeVars, db, userId, authPc, live, canvasDims, assetDims,
                   penVars, aiVars, clearVars, errorMessage, addLoad>>

\* The listener's error callback; the store ends a listener that failed.
SnapshotError(c) ==
    /\ live[c]
    /\ faults < MaxFaults
    /\ faults' = faults + 1
    /\ live' = [live EXCEPT ![c] = FALSE]
    /\ subs' = [subs EXCEPT ![c] = @ - 1]
    /\ errorMessage' = [errorMessage EXCEPT ![c] = ErrLoad]
    /\ UNCHANGED <<wavVars, mounted, docs, clock, inflight, writes, db, userId, authPc, seen,
                   drawingData, canvasVars, penVars, aiVars, clearVars, addLoad>>

\* ---------------------------------------------------------------- drawing
StartDrawing(c, p) ==
    /\ mounted[c]
    /\ isDrawing' = [isDrawing EXCEPT ![c] = TRUE]
    /\ lastXY' = [lastXY EXCEPT ![c] = p]
    /\ UNCHANGED <<wavVars, lifeVars, storeVars, syncVars, canvasVars, currentTool, brushColor,
                   brushSize, aiVars, clearVars, errorMessage, addLoad>>

StopDrawing(c) ==
    /\ mounted[c]
    /\ isDrawing' = [isDrawing EXCEPT ![c] = FALSE]
    /\ UNCHANGED <<wavVars, lifeVars, storeVars, syncVars, canvasVars, lastXY, currentTool,
                   brushColor, brushSize, aiVars, clearVars, errorMessage, addLoad>>

\* An eraser that strokes in the brush color.
StrokeColorBrush(c) == brushColor[c]

StrokeColor(c) == IF currentTool[c] = "brush" THEN brushColor[c] ELSE "#ffffff"

\* The stroke object of draw, lines 229-238.
Stroke(c, p) ==
    [x1 |-> lastXY[c][1], y1 |-> lastXY[c][2], x2 |-> p[1], y2 |-> p[2],
     color |-> StrokeColor(c), size |-> brushSize[c], userId |-> userId[c],
     timestamp |-> ServerTimestamp]

\* The line draw paints on the local canvas, lines 217-223.
LocalLine(c, p) ==
    [op |-> "line", x1 |-> lastXY[c][1], y1 |-> lastXY[c][2], x2 |-> p[1],
     y2 |-> p[2], color |-> StrokeColor(c), size |-> brushSize[c]]

AddRequest(c, kind, data) ==
    [id |-> <<c, writes + 1>>, from |-> c, kind |-> kind, data |-> data]

Draw(c, p) ==
    /\ mounted[c]
    /\ isDrawing[c]
    /\ writes < MaxWrites
    /\ surface' = [surface EXCEPT ![c] = Paint(@, LocalLine(c, p))]
    /\ lastXY' = [lastXY EXCEPT ![c] = p]
    /\ IF db[c]
       THEN /\ inflight' = inflight \cup {AddRequest(c, "stroke", Stroke(c, p))}
            /\ writes' = writes + 1
       ELSE UNCHANGED <<inflight, writes>>
    /\ UNCHANGED <<wavVars, lifeVars, docs, clock, faults, syncVars, loads, canvasDims, assetDims,
                   isDrawing, currentTool, brushColor, brushSize, aiVars,
                   clearVars, errorMessage, addLoad>>

SetCurrentTool(c, t) ==
    /\ mounted[c]
    /\ currentTool' = [currentTool EXCEPT ![c] = t]
    /\ UNCHANGED <<wavVars, lifeVars, storeVars, syncVars, canvasVars, isDrawing, lastXY, brushColor,
                   brushSize, aiVars, clearVars, errorMessage, addLoad>>

SetBrushColor(c, col) ==
    /\ mounted[c]
    /\ brushColor' = [brushColor EXCEPT ![c] = col]
    /\ UNCHANGED <<wavVars, lifeVars, storeVars, syncVars, canvasVars, isDrawing, lastXY, currentTool,
                   brushSize, aiVars, clearVars, errorMessage, addLoad>>

SetBrushSize(c, n) ==
    /\ mounted[c]
    /\ brushSize' = [brushSize EXCEPT ![c] = n]
    /\ UNCHANGED <<wavVars, lifeVars, storeVars, syncVars, canvasVars, isDrawing, lastXY, currentTool,
                   brushColor, aiVars, clearVars, errorMessage, addLoad>>

\* ------------------------------------------------------ the store's answers
\* add(): the store writes the document under its own timestamp.
StoreAdd(d, t, req) ==
    Append(d, [id |-> req.id, data |-> [req.data EXCEPT !.timestamp = t]])

PublishOk(req) ==
    /\ req \in inflight
    /\ clock' = clock + 1
    /\ docs' = StoreAdd(docs, clock + 1, req)
    /\ inflight' = inflight \ {req}
    /\ UNCHANGED <<wavVars, lifeVars, writes, faults, syncVars, canvasVars, penVars, aiVars,
                   clearVars, errorMessage, addLoad>>

\* The .catch of add(), lines 242-245 and 370-373.
PublishError(req) == IF req.kind = "stroke" THEN ErrStroke ELSE ErrAddImage

\* A rejection handler that takes the optimistic draw back.
OnPublishRejectedRollback(req) ==
    /\ errorMessage' = [errorMessage EXCEPT ![req.from] = SetState(req.from, @, PublishError(req))]
    /\ inflight' = inflight \ {req}
    /\ surface' = [surface EXCEPT ![req.from] =
                      IF @ = <<>> THEN @ ELSE SubSeq(@, 1, Len(@) - 1)]
    /\ UNCHANGED writes

\* The rejection handlers of draw and addImageToCanvas.
OnPublishRejected(req) ==
    /\ errorMessage' = [errorMessage EXCEPT ![req.from] = SetState(req.from, @, PublishError(req))]
    /\ inflight' = inflight \ {req}
    /\ UNCHANGED <<surface, writes>>

PublishRejected(req) ==
    /\ req \in inflight
    /\ faults < MaxFaults
    /\ faults' = faults + 1
    /\ OnPublishRejected(req)
    /\ UNCHANGED <<wavVars, lifeVars, docs, clock, syncVars, loads, canvasDims, assetDims, penVars,
                   aiVars, clearVars, addLoad>>

\* ------------------------------------------------------------ clearCanvas
ClearCanvas(c) ==
    /\ mounted[c]
    /\ db[c]
    /\ clearPc[c] = "idle"
    /\ clearPc' = [clearPc EXCEPT ![c] = "reading"]
    /\ UNCHANGED <<wavVars, lifeVars, storeVars, syncVars, canvasVars, penVars, aiVars, clearBatch,
                   errorMessage, addLoad>>

\* await drawingCollectionRef.get(): every document of the collection.
ClearRead(c) ==
    /\ clearPc[c] = "reading"
    /\ clearBatch' = [clearBatch EXCEPT ![c] = DocIds(docs)]
    /\ clearPc' = [clearPc EXCEPT ![c] = "committing"]
    /\ UNCHANGED <<wavVars, lifeVars, storeVars, syncVars, canvasVars, penVars, aiVars,
                   errorMessage, addLoad>>

\* The store applies the batch, all of it at once.
ClearCommit(c) ==
    /\ clearPc[c] = "committing"
    /\ docs' = CommitDeletes(docs, clearBatch[c])
    /\ clearPc' = [clearPc EXCEPT ![c] = "committed"]
    /\ UNCHANGED <<wavVars, lifeVars, clock, inflight, writes, faults, syncVars, canvasVars, penVars,
                   aiVars, clearBatch, errorMessage, addLoad>>

\* A continuation whose state change replays nothing.
OnClearedNoReplay(c) ==
    /\ drawingData' = [drawingData EXCEPT ![c] = SetState(c, @, <<>>)]
    /\ generatedImageUrl' = [generatedImageUrl EXCEPT ![c] = SetState(c, @, "")]
    /\ UNCHANGED <<surface, loads, errorMessage>>

\* The continuation of await batch.commit(), lines 289-290, and the resize
\* effect that setDrawingData([]) re-runs.
OnCleared(c) ==
    /\ drawingData' = [drawingData EXCEPT ![c] = SetState(c, @, <<>>)]
    /\ generatedImageUrl' = [generatedImageUrl EXCEPT ![c] = SetState(c, @, "")]
    /\ surface' = [surface EXCEPT ![c] = IF mounted[c] THEN RedrawSurface(<<>>) ELSE @]
    /\ loads' = [loads EXCEPT ![c] = IF mounted[c] THEN @ \cup RedrawLoads(<<>>) ELSE @]
    /\ UNCHANGED errorMessage

ClearDone(c) ==
    /\ clearPc[c] = "committed"
    /\ OnCleared(c)
    /\ clearPc' = [clearPc EXCEPT ![c] = "idle"]
    /\ clearBatch' = [clearBatch EXCEPT ![c] = {}]
    /\ UNCHANGED <<wavVars, lifeVars, storeVars, db, userId, authPc, live, seen, canvasDims,
                   assetDims, penVars, aiPrompt, isLoadingAI, genPc, addLoad>>

\* A catch block that also resets the local state.
OnClearFailedReset(c) ==
    /\ errorMessage' = [errorMessage EXCEPT ![c] = SetState(c, @, ErrClear)]
    /\ drawingData' = [drawingData EXCEPT ![c] = SetState(c, @, <<>>)]
    /\ generatedImageUrl' = [generatedImageUrl EXCEPT ![c] = SetState(c, @, "")]
    /\ UNCHANGED <<docs, surface>>

\* The catch block, lines 291-294.
OnClearFailed(c) ==
    /\ errorMessage' = [errorMessage EXCEPT ![c] = SetState(c, @, ErrClear)]
    /\ UNCHANGED <<docs, drawingData, generatedImageUrl, surface>>

\* get() or batch.commit() rejects.
ClearFailed(c) ==
    /\ clearPc[c] \in {"reading", "committing"}
    /\ faults < MaxFaults
    /\ faults' = faults + 1
    /\ OnClearFailed(c)
    /\ clearPc' = [clearPc EXCEPT ![c] = "idle"]
    /\ clearBatch' = [clearBatch EXCEPT ![c] = {}]
    /\ UNCHANGED <<wavVars, lifeVars, clock, inflight, writes, db, userId, authPc, live, seen,
                   loads, canvasDims, assetDims, penVars, aiPrompt, isLoadingAI,
                   genPc, addLoad>>

\* ---------------------------------------------------------- generateImage
SetAiPrompt(c, p) ==
    /\ mounted[c]
    /\ aiPrompt' = [aiPrompt EXCEPT ![c] = p]
    /\ UNCHANGED <<wavVars, lifeVars, storeVars, syncVars, canvasVars, penVars, generatedImageUrl,
                   isLoadingAI, genPc, clearVars, errorMessage, addLoad>>

\* A prompt taken as it is.
TrimNone(p) == p

\* aiPrompt.trim()
Trim(p) == IF p \in {"", " "} THEN "" ELSE p

GenerateImage(c) ==
    /\ mounted[c]
    /\ ~isLoadingAI[c]
    /\ genPc[c] = "idle"
    /\ IF Trim(aiPrompt[c]) = ""
       THEN /\ errorMessage' = [errorMessage EXCEPT ![c] = ErrPrompt]
            /\ UNCHANGED <<isLoadingAI, generatedImageUrl, genPc>>
       ELSE /\ isLoadingAI' = [isLoadingAI EXCEPT ![c] = TRUE]
            /\ errorMessage' = [errorMessage EXCEPT ![c] = ""]
            /\ generatedImageUrl' = [generatedImageUrl EXCEPT ![c] = ""]
            /\ genPc' = [genPc EXCEPT ![c] = "fetching"]
    /\ UNCHANGED <<wavVars, lifeVars, storeVars, syncVars, canvasVars, penVars, aiPrompt, clearVars,
                   addLoad>>

\* The response holds predictions[0].bytesBase64Encoded.
GenerateOk(c) ==
    /\ genPc[c] = "fetching"
    /\ generatedImageUrl' = [generatedImageUrl EXCEPT ![c] = SetState(c, @, DataUrl)]
    /\ isLoadingAI' = [isLoadingAI EXCEPT ![c] = SetState(c, @, FALSE)]
    /\ genPc' = [genPc EXCEPT ![c] = "idle"]
    /\ UNCHANGED <<wavVars, lifeVars, storeVars, syncVars, canvasVars, penVars, aiPrompt, clearVars,
                   errorMessage, addLoad>>

\* A 2xx response without a prediction (ErrNoImage), or a non-2xx response
\* or rejected fetch (ErrGenerate).
GenerateFailed(c, msg) ==
    /\ genPc[c] = "fetching"
    /\ faults < MaxFaults
    /\ faults' = faults + 1
    /\ errorMessage' = [errorMessage EXCEPT ![c] = SetState(c, @, msg)]
    /\ isLoadingAI' = [isLoadingAI EXCEPT ![c] = SetState(c, @, FALSE)]
    /\ genPc' = [genPc EXCEPT ![c] = "idle"]
    /\ UNCHANGED <<wavVars, lifeVars, docs, clock, inflight, writes, syncVars, canvasVars, penVars,
                   aiPrompt, generatedImageUrl, clearVars, addLoad>>

\* ------------------------------------------------------- addImageToCanvas
\* The click: img.src = generatedImageUrl; the onload closure holds the
\* url and the userId of the render it was made in.
AddImageToCanvas(c) ==
    /\ mounted[c]
    /\ generatedImageUrl[c] # ""
    /\ db[c]
    /\ addLoad[c] = {}
    /\ addLoad' = [addLoad EXCEPT ![c] =
                      {[url |-> generatedImageUrl[c], userId |-> userId[c]]}]
    /\ UNCHANGED <<wavVars, lifeVars, storeVars, syncVars, canvasVars, penVars, aiVars, clearVars,
                   errorMessage>>

\* The imageData object of img.onload, lines 360-369.
ImageData(c, closure) ==
    [type |-> "image", url |-> closure.url,
     x |-> ImgX(canvasDims[c][1], assetDims[1]),
     y |-> ImgY(canvasDims[c][1], canvasDims[c][2], assetDims[1], assetDims[2]),
     width |-> ImgWidth(canvasDims[c][1], assetDims[1]),
     height |-> ImgHeight(canvasDims[c][1], assetDims[1], assetDims[2]),
     userId |-> closure.userId, timestamp |-> ServerTimestamp]

\* ctx.drawImage(img, x, y, imgWidth, imgHeight), line 357.
LocalImage(c, closure) ==
    [op |-> "image", url |-> closure.url,
     x |-> ImgX(canvasDims[c][1], assetDims[1]),
     y |-> ImgY(canvasDims[c][1], canvasDims[c][2], assetDims[1], assetDims[2]),
     width |-> ImgWidth(canvasDims[c][1], assetDims[1]),
     height |-> ImgHeight(canvasDims[c][1], assetDims[1], assetDims[2])]

AddImageOnload(c, closure) ==
    /\ closure \in addLoad[c]
    /\ writes < MaxWrites
    /\ surface' = [surface EXCEPT ![c] = Paint(@, LocalImage(c, closure))]
    /\ inflight' = inflight \cup {AddRequest(c, "image", ImageData(c, closure))}
    /\ writes' = writes + 1
    /\ addLoad' = [addLoad EXCEPT ![c] = @ \ {closure}]
    /\ UNCHANGED <<wavVars, lifeVars, docs, clock, faults, syncVars, loads, canvasDims, assetDims,
                   penVars, aiVars, clearVars, errorMessage>>

\* ------------------------------------------------- image loads of a replay
\* img.onload of redrawCanvas, lines 173-176.
ImageLoaded(c, o) ==
    /\ o \in loads[c]
    /\ surface' = [surface EXCEPT ![c] = Paint(@, o)]
    /\ loads' = [loads EXCEPT ![c] = @ \ {o}]
    /\ UNCHANGED <<wavVars, lifeVars, storeVars, syncVars, canvasDims, assetDims, penVars, aiVars,
                   clearVars, errorMessage, addLoad>>

\* ------------------------------------------------------ image load errors
\* The image of a replayed record fails to load (img.src of line 177 set
\* to a url that cannot be fetched or decoded); the Image has no onerror
\* handler, so nothing runs.
ImageLoadFailed(c, o) ==
    /\ o \in loads[c]
    /\ faults < MaxFaults
    /\ faults' = faults + 1
    /\ loads' = [loads EXCEPT ![c] = @ \ {o}]
    /\ UNCHANGED <<wavVars, docs, clock, inflight, writes, syncVars, surface, canvasDims,
                   assetDims, penVars, aiVars, clearVars, errorMessage, addLoad,
                   lifeVars>>

\* The generated asset fails to load in addImageToCanvas (img.src of line
\* 375); this Image has no onerror handler either.
AddImageLoadFailed(c, closure) ==
    /\ closure \in addLoad[c]
    /\ faults < MaxFaults
    /\ faults' = faults + 1
    /\ addLoad' = [addLoad EXCEPT ![c] = @ \ {closure}]
    /\ UNCHANGED <<wavVars, docs, clock, inflight, writes, syncVars, canvasVars, penVars,
                   aiVars, clearVars, errorMessage, lifeVars>>

\* ----------------------------------------------------------------- resize
\* resizeCanvas, lines 265-270: setting canvas.width resets the canvas.
ResizeCanvas(c, dims) ==
    /\ mounted[c]
    /\ canvasDims' = [canvasDims EXCEPT ![c] = dims]
    /\ surface' = [surface EXCEPT ![c] = RedrawSurface(drawingData[c])]
    /\ loads' = [loads EXCEPT ![c] = @ \cup RedrawLoads(drawingData[c])]
    /\ UNCHANGED <<wavVars, lifeVars, storeVars, syncVars, assetDims, penVars, aiVars, clearVars,
                   errorMessage, addLoad>>

\* --------------------------------------------------------- specifications
\* Two subscribed clients; the painter draws segments.
NextSync ==
    \/ \E c \in Clients : Deliver(c)
    \/ \E c \in Clients : SnapshotError(c)
    \/ \E c \in Painters, p \in DragStarts : StartDrawing(c, p)
    \/ \E c \in Painters, p \in DragMoves : Draw(c, p)
    \/ \E c \in Painters : StopDrawing(c)
    \/ \E req \in inflight : PublishOk(req)
    \/ \E req \in inflight : PublishRejected(req)
    \/ \E c \in Clients, dims \in SurfaceSizes : ResizeCanvas(c, dims)

Spec == Init /\ [][NextSync]_vars

\* One subscribed client that draws segments and places images.
NextImage ==
    \/ NextSync
    \/ \E c \in Painters : AddImageToCanvas(c)
    \/ \E c \in Clients : \E closure \in addLoad[c] : AddImageOnload(c, closure)
    \/ \E c \in Clients : \E o \in loads[c] : ImageLoaded(c, o)

SpecImage == InitSolo /\ [][NextImage]_vars

\* Two subscribed clients; the painter draws segments and places images,
\* the other client only replays what it is sent.
SpecShare == Init /\ [][NextImage]_vars

\* One subscribed client that draws segments and clears.
NextClear ==
    \/ \E c \in Clients : Deliver(c)
    \/ \E c \in Painters, p \in DragStarts : StartDrawing(c, p)
    \/ \E c \in Painters, p \in DragMoves : Draw(c, p)
    \/ \E req \in inflight : PublishOk(req)
    \/ \E req \in inflight : PublishRejected(req)
    \/ \E c \in Clearers : ClearCanvas(c)
    \/ \E c \in Clients : ClearRead(c)
    \/ \E c \in Clients : ClearCommit(c)
    \/ \E c \in Clients : ClearDone(c)
    \/ \E c \in Clients : ClearFailed(c)

SpecClear == InitSolo /\ [][NextClear]_vars

\* One subscribed client that draws segments and clears, on a surface that
\* is resized.
NextResize ==
    \/ NextClear
    \/ \E c \in Painters, dims \in PlaceSurfaceSizes : ResizeCanvas(c, dims)

SpecResize == InitSolo /\ [][NextResize]_vars

\* One subscribed client that draws segments, over a collection that holds
\* records of other origin.
NextLegacy ==
    \/ \E c \in Clients : Deliver(c)
    \/ \E c \in Painters, p \in DragStarts : StartDrawing(c, p)
    \/ \E c \in Painters, p \in DragMoves : Draw(c, p)
    \/ \E req \in inflight : PublishOk(req)
    \/ \E c \in Clients : \E o \in loads[c] : ImageLoaded(c, o)

SpecLegacy == InitLegacy /\ [][NextLegacy]_vars

\* The life of the painter's component, from its mount to its teardown.
NextLife ==
    \/ \E c \in Painters, sdk \in BOOLEAN : AuthEffect(c, sdk)
    \/ \E c \in Painters : SignedIn(c)
    \/ \E c \in Painters : SignInFailed(c)
    \/ \E c \in Painters : UserChanged(c)
    \/ \E c \in Painters : Deliver(c)
    \/ \E c \in Painters : SnapshotError(c)
    \/ \E c \in Painters : Unmount(c)
    \/ \E c \in Painters, p \in DragStarts : StartDrawing(c, p)
    \/ \E c \in Painters, p \in DragMoves : Draw(c, p)
    \/ \E req \in inflight : PublishOk(req)

SpecLife == InitLife /\ [][NextLife]_vars

\* One subscribed client that is torn down while it draws, clears and
\* generates an image.
NextTeardown ==
    \/ \E c \in Clients : Deliver(c)
    \/ \E c \in Painters, p \in DragStarts : StartDrawing(c, p)
    \/ \E c \in Painters, p \in DragMoves : writes < MaxDrawn /\ Draw(c, p)
    \/ \E req \in inflight : PublishOk(req)
    \/ \E req \in inflight : PublishRejected(req)
    \/ \E c \in Clearers : ClearCanvas(c)
    \/ \E c \in Clients : ClearRead(c)
    \/ \E c \in Clients : ClearCommit(c)
    \/ \E c \in Clients : ClearDone(c)
    \/ \E c \in Clients : ClearFailed(c)
    \/ \E c \in Painters : GenerateImage(c)
    \/ \E c \in Painters : GenerateOk(c)
    \/ \E c \in Painters, msg \in {ErrNoImage, ErrGenerate} : GenerateFailed(c, msg)
    \/ \E c \in Painters : Unmount(c)

SpecTeardown == InitSolo /\ [][NextTeardown]_vars

\* One subscribed client that draws segments and places images, with image
\* loads that may fail.
NextFault ==
    \/ NextImage
    \/ \E c \in Clients : \E o \in loads[c] : ImageLoadFailed(c, o)
    \/ \E c \in Clients : \E closure \in addLoad[c] : AddImageLoadFailed(c, closure)

SpecFault == InitSolo /\ [][NextFault]_vars

\* Replays of a collection of segments on canvases that show something
\* already.
NextReplay ==
    \/ \E c \in Clients : Deliver(c)
    \/ \E c \in Clients, dims \in SurfaceSizes : ResizeCanvas(c, dims)

SpecReplay == InitReplay /\ [][NextReplay]_vars

\* One subscribed client that places images and clears.
NextStale ==
    \/ \E c \in Clients : Deliver(c)
    \/ \E req \in inflight : PublishOk(req)
    \/ \E c \in Painters : AddImageToCanvas(c)
    \/ \E c \in Clients : \E closure \in addLoad[c] : AddImageOnload(c, closure)
    \/ \E c \in Clients : \E o \in loads[c] : ImageLoaded(c, o)
    \/ \E c \in Clearers : ClearCanvas(c)
    \/ \E c \in Clients : ClearRead(c)
    \/ \E c \in Clients : ClearCommit(c)
    \/ \E c \in Clients : ClearDone(c)

SpecStale == InitSolo /\ [][NextStale]_vars

\* Two subscribed clients: the painter draws while the other client
\* clears.
NextRace ==
    \/ \E c \in Clients : Deliver(c)
    \/ \E c \in Painters, p \in DragStarts : StartDrawing(c, p)
    \/ \E c \in Painters, p \in DragMoves : writes < MaxDrawn /\ Draw(c, p)
    \/ \E req \in inflight : PublishOk(req)
    \/ \E c \in Clients \ Painters : ClearCanvas(c)
    \/ \E c \in Clients : ClearRead(c)
    \/ \E c \in Clients : ClearCommit(c)
    \/ \E c \in Clients : ClearDone(c)

SpecRace == Init /\ [][NextRace]_vars

\* One subscribed client that drags over the canvas and changes its tool,
\* color and size.
NextDrag ==
    \/ \E c \in Painters, p \in DragStarts : StartDrawing(c, p)
    \/ \E c \in Painters, p \in PenMoves : writes < MaxMoves /\ Draw(c, p)
    \/ \E c \in Painters : StopDrawing(c)
    \/ \E c \in Painters, t \in Tools : SetCurrentTool(c, t)
    \/ \E c \in Painters, col \in Colors : SetBrushColor(c, col)
    \/ \E c \in Painters, n \in PenSizes : SetBrushSize(c, n)

SpecDrag == InitSolo /\ [][NextDrag]_vars

\* One client that places images on surfaces and from assets of several
\* sizes.
NextPlace ==
    \/ \E c \in Clients : Deliver(c)
    \/ \E req \in inflight : PublishOk(req)
    \/ \E c \in Painters : AddImageToCanvas(c)
    \/ \E c \in Clients : \E closure \in addLoad[c] : AddImageOnload(c, closure)
    \/ \E c \in Clients : \E o \in loads[c] : ImageLoaded(c, o)

SpecPlace == InitPlace /\ [][NextPlace]_vars

\* From the mounted component to the scenarios' initial states: sign-in,
\* the controls and the image generation.
NextBoot ==
    \/ \E c \in Clients : SignedIn(c)
    \/ \E c \in Clients : SignInFailed(c)
    \/ \E c \in Clients : Deliver(c)
    \/ \E c \in Painters, t \in Tools : SetCurrentTool(c, t)
    \/ \E c \in Painters, col \in Colors : SetBrushColor(c, col)
    \/ \E c \in Painters, n \in Sizes : SetBrushSize(c, n)
    \/ \E c \in Painters, p \in Prompts : SetAiPrompt(c, p)
    \/ \E c \in Painters : GenerateImage(c)
    \/ \E c \in Painters : GenerateOk(c)
    \/ \E c \in Painters, msg \in {ErrNoImage, ErrGenerate} : GenerateFailed(c, msg)

SpecBoot == InitBoot /\ [][NextBoot]_vars

\* ------------------------------------------------------ the WAV utility
\* Bounds of the audio inputs.
MaxSamples == 2

NumChannels == 1
BytesPerSample == 2
HeaderBytes == 44

\* Int16 values, the extremes of the range and values whose two bytes differ.
PcmSamples == {-32768, -1, 0, 1, 258, 32767}
SampleRates == {8000, 24000, 44100}
\* Int16Array contents of up to MaxSamples samples.
PcmInputs == UNION {[1..n -> PcmSamples] : n \in 0..MaxSamples}

\* The character codes string.charCodeAt gives for the four chunk tags.
TagRIFF == <<82, 73, 70, 70>>
TagWAVE == <<87, 65, 86, 69>>
TagFmt == <<102, 109, 116, 32>>
TagData == <<100, 97, 116, 97>>

\* Int16Array.byteLength: two bytes per element.
ByteLength(pcm) == 2 * Len(pcm)

\* new ArrayBuffer(n): n zero bytes; byte offset k is element k + 1.
ArrayBuffer(n) == [i \in 1..n |-> 0]

\* Bytes bs stored from byte offset off on.
SetBytes(view, off, bs) ==
    [i \in DOMAIN view |->
        IF i > off /\ i <= off + Len(bs) THEN bs[i - off] ELSE view[i]]

\* writeString: one setUint8 per character.
WriteString(view, off, tag) ==
    SetBytes(view, off, [i \in DOMAIN tag |-> tag[i] % 256])

\* DataView.setUint32(off, v, true): v modulo 2^32, low byte first.
SetUint32(view, off, v) ==
    SetBytes(view, off, <<v % 256, (v \div 256) % 256,
                          (v \div 65536) % 256, (v \div 16777216) % 256>>)

\* DataView.setUint16(off, v, true): v modulo 2^16, low byte first.
SetUint16(view, off, v) ==
    SetBytes(view, off, <<v % 256, (v \div 256) % 256>>)

Int16BE(v) == <<((v + 65536) \div 256) % 256, (v + 65536) % 256>>

\* The two bytes DataView.setInt16(off, v, true) stores: the two's
\* complement of v, low byte first.
Int16LE(v) == <<(v + 65536) % 256, ((v + 65536) \div 256) % 256>>

SetInt16(view, off, v) == SetBytes(view, off, Int16LE(v))

\* The loop over the samples, sample i at byte 44 + i * bytesPerSample.
RECURSIVE WriteSamples(_, _, _)
WriteSamples(view, pcm, i) ==
    IF i >= Len(pcm) THEN view
    ELSE WriteSamples(SetInt16(view, HeaderBytes + i * BytesPerSample, pcm[i + 1]),
                      pcm, i + 1)

\* pcmToWav: the bytes of the returned Blob.
PcmToWav(pcm, rate) ==
    LET byteRate == rate * NumChannels * BytesPerSample
        blockAlign == NumChannels * BytesPerSample
        b0 == ArrayBuffer(HeaderBytes + ByteLength(pcm))
        b1 == WriteString(b0, 0, TagRIFF)
        b2 == SetUint32(b1, 4, 36 + ByteLength(pcm))
        b3 == WriteString(b2, 8, TagWAVE)
        b4 == WriteString(b3, 12, TagFmt)
        b5 == SetUint32(b4, 16, 16)
        b6 == SetUint16(b5, 20, 1)
        b7 == SetUint16(b6, 22, NumChannels)
        b8 == SetUint32(b7, 24, rate)
        b9 == SetUint32(b8, 28, byteRate)
        b10 == SetUint16(b9, 32, blockAlign)
        b11 == SetUint16(b10, 34, BytesPerSample * 8)
        b12 == WriteString(b11, 36, TagData)
        b13 == SetUint32(b12, 40, ByteLength(pcm))
    IN  WriteSamples(b13, pcm, 0)

\* A caller holding decoded samples and their sample rate.
InitWav ==
    /\ InitStore
    /\ InitAuth
    /\ InitClient
    /\ InitNoImage
    /\ canvasDims \in [Clients -> SurfaceSizes]
    /\ assetDims \in AssetSizes
    /\ pcmData \in PcmInputs
    /\ sampleRate \in SampleRates
    /\ wav = <<>>

CallPcmToWav ==
    /\ wav = <<>>
    /\ wav' = PcmToWav(pcmData, sampleRate)
    /\ UNCHANGED <<pcmData, sampleRate, storeVars, syncVars, canvasVars, penVars,
                   aiVars, clearVars, errorMessage, addLoad, lifeVars>>

NextWav == CallPcmToWav

SpecWav == InitWav /\ [][NextWav]_vars

\* ------------------------------------------------------------- properties
OpsOn(s) == {s[k] : k \in DOMAIN s}
SegmentOps(data) == {LineOp(data[i]) : i \in {j \in DOMAIN data : IsSegment(data[j])}}
RecordsOf(d) == {d[i] : i \in DOMAIN d}
Delivered(c) == seen'[c] # seen[c] /\ seen'[c].fired
\* Nothing more will be delivered to c until the collection changes.
UpToDate(c) == live[c] /\ seen[c] = Snap(Window(docs))

\* The Limit documents with the highest timestamps.
MostRecent(d) == SubSeq(d, Len(d) - Min(Len(d), Limit) + 1, Len(d))

\* C1: every snapshot delivered to a client (and the drawingData it sets)
\* holds at most Limit records and is the Limit most recent records of the
\* collection.
C1_MostRecentWindow ==
    [][\A c \in Clients : Delivered(c) =>
          /\ Len(seen'[c].snapshot) <= Limit
          /\ seen'[c].snapshot = MostRecent(docs')
          /\ drawingData'[c] = SnapshotData(MostRecent(docs'))]_vars

\* C2: once nothing more is pending for a subscribed client, every segment
\* another client has written to the collection is in the snapshot the
\* client holds and is drawn on its surface.
C2_EndToEndDelivery ==
    \A c \in Clients : UpToDate(c) =>
        \A doc \in RecordsOf(docs) :
            (IsSegment(doc.data) /\ doc.data.userId # userId[c]) =>
                /\ doc \in RecordsOf(seen[c].snapshot)
                /\ LineOp(doc.data) \in OpsOn(surface[c])

\* C3: right after a snapshot delivery the client's drawingData is the
\* delivered list, the surface shows the segments of that list and nothing
\* else, and the load of every image of the list has been started.
C3_SnapshotAuthoritative ==
    [][\A c \in Clients : Delivered(c) =>
          /\ drawingData'[c] = [i \in DOMAIN seen'[c].snapshot |-> seen'[c].snapshot[i].data]
          /\ OpsOn(surface'[c]) = SegmentOps(drawingData'[c])
          /\ ImageLoads(drawingData'[c]) \subseteq loads'[c]]_vars

\* A snapshot with a segment and an image has replaced the client's state.
C3_Witness ==
    \E c \in Clients :
        /\ seen[c].fired
        /\ drawingData[c] = SnapshotData(seen[c].snapshot)
        /\ \E i, j \in DOMAIN drawingData[c] :
              IsSegment(drawingData[c][i]) /\ IsImage(drawingData[c][j])
        /\ ImageLoads(drawingData[c]) \subseteq loads[c]
        /\ OpsOn(surface[c]) = SegmentOps(drawingData[c])

Ascending(data) ==
    \A i, j \in DOMAIN data : i < j => data[i].timestamp < data[j].timestamp

\* C4: every delivered snapshot and every list handed to replay (the
\* client's drawingData) is in ascending serverTime, the client replays the
\* delivered list as delivered, and no request a client sends carries a
\* timestamp of its own.
C4_AscendingOrder ==
    /\ \A c \in Clients :
          /\ Ascending([i \in DOMAIN seen[c].snapshot |-> seen[c].snapshot[i].data])
          /\ Ascending(drawingData[c])
          /\ Len(drawingData[c]) = Len(seen[c].snapshot)
          /\ \A i \in DOMAIN drawingData[c] :
                drawingData[c][i] = seen[c].snapshot[i].data
    /\ \A req \in inflight : req.data.timestamp = ServerTimestamp

\* A client holds a snapshot of two records, a segment and an image, while
\* a write of its own is in flight.
C4_Witness ==
    \E c \in Clients :
        /\ seen[c].fired
        /\ Len(drawingData[c]) >= 2
        /\ \E i, j \in DOMAIN drawingData[c] :
              IsSegment(drawingData[c][i]) /\ IsImage(drawingData[c][j])
        /\ \E req \in inflight : req.from = c

\* decode of 4.1: the primitive of a record (none for a malformed one).
RECURSIVE Primitives(_, _)
Primitives(s, data) ==
    IF data = <<>> THEN s
    ELSE LET r == Head(data)
             t == IF IsSegment(r) THEN Paint(s, LineOp(r))
                  ELSE IF IsImage(r) THEN Paint(s, ImageOp(r)) ELSE s
         IN Primitives(t, Tail(data))

\* C5: once a client that only replays has replayed a snapshot, every image
\* load has finished and every record's primitive is on the surface, the
\* surface is the primitives in ascending serverTime order.
C5_ReplayConvergence ==
    \A c \in Clients \ Painters :
        ( /\ seen[c].fired
          /\ drawingData[c] = SnapshotData(seen[c].snapshot)
          /\ loads[c] = {}
          /\ OpsOn(surface[c]) = OpsOn(Primitives(<<>>, drawingData[c])) )
        => surface[c] = Primitives(<<>>, drawingData[c])

Committing(c) == clearPc[c] = "committing" /\ clearPc'[c] = "committed"
Completing(c) == clearPc[c] = "committed" /\ clearPc'[c] = "idle"
Failing(c) == clearPc[c] \in {"reading", "committing"} /\ clearPc'[c] = "idle"

\* C6: the commit of clearCanvas removes exactly the documents its read
\* found and no other, in one step; drawingData is emptied by the step that
\* follows the commit and not by clearCanvas before that.
C6_ClearSuccess ==
    [][\A c \in Clients :
          /\ Committing(c) =>
                /\ DocIds(docs') = DocIds(docs) \ clearBatch[c]
                /\ RecordsOf(docs') \subseteq RecordsOf(docs)
                /\ Len(docs') = Cardinality(DocIds(docs'))
                /\ drawingData'[c] = drawingData[c]
          /\ Completing(c) => drawingData'[c] = <<>> /\ docs' = docs
          /\ (clearPc[c] \in {"reading", "committing"} /\ drawingData'[c] # drawingData[c])
                => Delivered(c)]_vars

\* A clear has committed, a record published after its read is still in
\* the collection, and the local state is not cleared yet.
C6_Witness ==
    \E c \in Clients :
        /\ clearPc[c] = "committed"
        /\ clearBatch[c] # {}
        /\ docs # <<>>
        /\ drawingData[c] # <<>>

\* C7: when the read or the commit of clearCanvas rejects, the collection
\* is as it was, the error slot holds the clear's message, and drawingData
\* and generatedImageUrl are unchanged.
C7_ClearFailure ==
    [][\A c \in Clients : Failing(c) =>
          /\ docs' = docs
          /\ errorMessage'[c] = ErrClear
          /\ drawingData'[c] = drawingData[c]
          /\ generatedImageUrl'[c] = generatedImageUrl[c]]_vars

\* A clear has failed on a client that holds records and an image.
C7_Witness ==
    \E c \in Clients :
        /\ errorMessage[c] = ErrClear
        /\ clearPc[c] = "idle"
        /\ docs # <<>>
        /\ drawingData[c] # <<>>
        /\ generatedImageUrl[c] # ""

\* C8: a clearCanvas whose read found the collection empty removes nothing,
\* sets no error message and leaves the surface blank.
C8_ClearEmpty ==
    [][\A c \in Clients : clearBatch[c] = {} =>
          /\ Committing(c) => docs' = docs
          /\ Completing(c) =>
                /\ docs' = docs
                /\ errorMessage'[c] = errorMessage[c]
                /\ surface'[c] = <<>>]_vars

\* A clear of the empty collection has committed while the surface holds a
\* draw whose publish was rejected.
C8_Witness ==
    \E c \in Clients :
        /\ clearPc[c] = "committed"
        /\ clearBatch[c] = {}
        /\ docs = <<>>
        /\ inflight = {}
        /\ surface[c] # <<>>

\* C9: when the store rejects a publish, the client's error slot holds the
\* message of that publish, no request is sent in its place, and the
\* surfaces are as they were.
C9_PublishFailure ==
    [][\A req \in inflight : (req \notin inflight' /\ docs' = docs) =>
          /\ errorMessage'[req.from] =
                (IF req.kind = "stroke" THEN ErrStroke ELSE ErrAddImage)
          /\ inflight' = inflight \ {req}
          /\ writes' = writes
          /\ surface' = surface]_vars

\* The publish of a placed image was rejected; the image is still on the
\* surface and not in the collection.
C9_Witness ==
    \E c \in Clients :
        /\ errorMessage[c] = ErrAddImage
        /\ inflight = {}
        /\ \E o \in OpsOn(surface[c]) : o.op = "image"
        /\ \A doc \in RecordsOf(docs) : ~IsImage(doc.data)

ImageRecords == {doc \in RecordsOf(docs) : IsImage(doc.data)}
Example(c) == canvasDims[c] = <<1000, 1000>> /\ assetDims = <<400, 200>>

\* C10 as stated: on a 1000x1000 surface a 400x200 asset is placed with
\* width 500, height 250, x 250, y 375.
C10_PlacementAsStated ==
    \A c \in Clients : Example(c) =>
        \A doc \in ImageRecords : doc.id[1] = c =>
            /\ doc.data.width = Int2Rat(500)
            /\ doc.data.height = Int2Rat(250)
            /\ doc.data.x = Int2Rat(250)
            /\ doc.data.y = Int2Rat(375)

\* C10, amended: on a 1000x1000 surface a 400x200 asset is placed with
\* width 400, height 200, x 300, y 400.
C10_Placement ==
    \A c \in Clients : Example(c) =>
        \A doc \in ImageRecords : doc.id[1] = c =>
            /\ doc.data.width = Int2Rat(400)
            /\ doc.data.height = Int2Rat(200)
            /\ doc.data.x = Int2Rat(300)
            /\ doc.data.y = Int2Rat(400)

\* The example's placement has been published.
C10_Witness ==
    \E c \in Clients : Example(c) /\ \E doc \in ImageRecords : doc.id[1] = c

\* The step in which the onload closure of addImageToCanvas runs.
Placing(c, closure) == closure \in addLoad[c] /\ closure \notin addLoad'[c]

\* The rectangle r (x, y, width, height as fractions) is at most half the
\* surface wide, in the asset's proportions and centered on the surface.
PlacedByRule(r, cw, ch, iw, ih) ==
    /\ 2 * r.width[1] <= cw * r.width[2]
    /\ r.width[1] * r.height[2] * ih = r.height[1] * r.width[2] * iw
    /\ 2 * r.x[1] * r.width[2] = r.x[2] * (cw * r.width[2] - r.width[1])
    /\ 2 * r.y[1] * r.height[2] = r.y[2] * (ch * r.height[2] - r.height[1])

\* C11: for every surface size and asset size, the onload step of
\* addImageToCanvas sends exactly one image record, whose width is at most
\* half the surface width, whose width and height are in the asset's ratio
\* and which is centered; the same rectangle is drawn on the local surface.
C11_PlacementRule ==
    [][\A c \in Clients : \A closure \in addLoad[c] : Placing(c, closure) =>
          \E req \in inflight' :
              /\ req \notin inflight
              /\ inflight' = inflight \cup {req}
              /\ req.from = c
              /\ req.kind = "image"
              /\ req.data.type = "image"
              /\ req.data.url = closure.url
              /\ PlacedByRule(req.data, canvasDims[c][1], canvasDims[c][2],
                              assetDims[1], assetDims[2])
              /\ surface'[c] # <<>>
              /\ LET o == surface'[c][Len(surface'[c])] IN
                    /\ o.op = "image"
                    /\ o.url = closure.url
                    /\ <<o.x, o.y, o.width, o.height>> =
                          <<req.data.x, req.data.y, req.data.width, req.data.height>>]_vars

\* An image clamped to half of a surface of odd width (150.5) has been
\* drawn locally and stored.
C11_Witness ==
    \E c \in Clients : \E doc \in ImageRecords :
        /\ doc.id[1] = c
        /\ doc.data.width[2] = 2
        /\ doc.data.width # Int2Rat(assetDims[1])
        /\ \E o \in OpsOn(surface[c]) : o.op = "image" /\ o.width = doc.data.width

\* The resize handler of c runs with new dimensions.
Resizing(c) == canvasDims'[c] # canvasDims[c]

\* C12: after a resize of a client to which nothing more is to be
\* delivered, the surface is the replay of the last snapshot the client
\* received (its segments drawn, its images' loads started), with nothing
\* else on it.
C12_ResizeReplay ==
    [][\A c \in Clients : (Resizing(c) /\ UpToDate(c)) =>
          /\ surface'[c] = RedrawSurface(SnapshotData(seen[c].snapshot))
          /\ RedrawLoads(SnapshotData(seen[c].snapshot)) \subseteq loads'[c]]_vars

\* A record with neither the four segment coordinates nor the image marker
\* with a url.
Malformed(r) ==
    /\ \E f \in {"x1", "y1", "x2", "y2"} : f \notin DOMAIN r
    /\ \/ "type" \notin DOMAIN r
       \/ "url" \notin DOMAIN r
       \/ r.type # "image"
       \/ r.url = ""
WellFormed(data) == SelectSeq(data, LAMBDA r : ~Malformed(r))
Received(c) == [i \in DOMAIN seen'[c].snapshot |-> seen'[c].snapshot[i].data]

\* C13: the replay of a delivered list draws its valid records exactly as
\* the replay of the list without its malformed records does (the same
\* surface, the same image loads started), and leaves the error slot alone.
C13_MalformedSkipped ==
    [][\A c \in Clients : Delivered(c) =>
          /\ surface'[c] = RedrawSurface(WellFormed(Received(c)))
          /\ loads'[c] = loads[c] \cup RedrawLoads(WellFormed(Received(c)))
          /\ errorMessage' = errorMessage]_vars

\* A list whose first record is malformed and whose second is a segment
\* has been replayed: the segment is on the surface, the error slot is
\* empty.
C13_Witness ==
    \E c \in Clients :
        /\ seen[c].fired
        /\ Len(drawingData[c]) >= 2
        /\ Malformed(drawingData[c][1])
        /\ IsSegment(drawingData[c][2])
        /\ surface[c] = <<LineOp(drawingData[c][2])>>
        /\ errorMessage[c] = ""

C15_SubscriptionLifecycle ==
    [][\A c \in Clients :
          /\ subs'[c] \in {0, 1}
          /\ live'[c] <=> subs'[c] = 1
          /\ live'[c] => db'[c] /\ userId'[c] # NoUser /\ mounted'[c]
          /\ ~mounted'[c] => subs'[c] = 0
          /\ ~mounted[c] => seen'[c] = seen[c] /\ drawingData'[c] = drawingData[c]]_vars

\* A client whose listener was registered again for another identity and
\* had received a snapshot with a record has been torn down, and the
\* collection has changed since.
C15_Witness ==
    \E c \in Clients :
        /\ ~mounted[c]
        /\ userId[c] = OtherUid(c)
        /\ seen[c].fired
        /\ seen[c].snapshot # <<>>
        /\ seen[c] # Snap(Window(docs))

FailureMessages ==
    {ErrSdk, ErrSignIn, ErrLoad, ErrStroke, ErrClear, ErrNoImage, ErrGenerate,
     ErrAddImage}

\* C16: after every step in which an operation fails, the error slot of
\* a client holds the message of a failure.
C16_ErrorPropagation ==
    [][faults' > faults => \E c \in Clients : errorMessage'[c] \in FailureMessages]_vars

\* The generateImage call of c that sent a request completes.
GenCompleting(c) == genPc[c] = "fetching" /\ genPc'[c] = "idle"
\* generateImage of c returns at its prompt test.
GenRefusing(c) == errorMessage'[c] = ErrPrompt /\ errorMessage[c] # ErrPrompt
Blank(p) == p \in {"", " "}
GenSucceeded(c) ==
    generatedImageUrl'[c] = DataUrl /\ errorMessage'[c] = errorMessage[c]
GenFailed(c) ==
    /\ generatedImageUrl'[c] = ""
    /\ errorMessage'[c] \in {ErrPrompt, ErrNoImage, ErrGenerate}

\* C17 as stated: every generateImage call that completes, the one
\* refused for its empty prompt included, leaves isLoadingAI false and
\* either generatedImageUrl set with the error slot as it was, or
\* generatedImageUrl empty with the error slot set; no request is sent for
\* an empty prompt.
C17_OutcomeAsStated ==
    [][\A c \in Clients :
          /\ (GenCompleting(c) \/ GenRefusing(c)) =>
                /\ ~isLoadingAI'[c]
                /\ GenSucceeded(c) \/ GenFailed(c)
                /\ ~(GenSucceeded(c) /\ GenFailed(c))
          /\ (Blank(aiPrompt[c]) /\ genPc[c] = "idle") => genPc'[c] = "idle"]_vars

\* C17, amended: every generateImage call that sent a request and
\* completes leaves isLoadingAI false and either generatedImageUrl set
\* with the error slot as it was, or generatedImageUrl empty with the error
\* slot set; for an empty prompt no request is sent, the error slot is set
\* and generatedImageUrl and isLoadingAI are left as they were.
C17_Outcome ==
    [][\A c \in Clients :
          /\ GenCompleting(c) =>
                /\ ~isLoadingAI'[c]
                /\ GenSucceeded(c) \/ GenFailed(c)
                /\ ~(GenSucceeded(c) /\ GenFailed(c))
          /\ GenRefusing(c) =>
                /\ Blank(aiPrompt[c])
                /\ generatedImageUrl'[c] = generatedImageUrl[c]
                /\ isLoadingAI'[c] = isLoadingAI[c]
          /\ (Blank(aiPrompt[c]) /\ genPc[c] = "idle") => genPc'[c] = "idle"]_vars

\* A call with a blank prompt was refused while the image of an earlier
\* call is still held.
C17_Witness ==
    \E c \in Clients :
        /\ errorMessage[c] = ErrPrompt
        /\ generatedImageUrl[c] = DataUrl
        /\ aiPrompt[c] = " "
        /\ genPc[c] = "idle"
        /\ ~isLoadingAI[c]

\* C18: two canvases of the same size on which the same list of segments
\* has been replayed show the same, whatever each showed before.
C18_ReplayDeterminism ==
    \A c1, c2 \in Clients :
        ( /\ seen[c1].fired
          /\ seen[c2].fired
          /\ seen[c1] = seen[c2]
          /\ canvasDims[c1] = canvasDims[c2] )
        => surface[c1] = surface[c2]

\* One client has replayed a list of two segments; the other still shows
\* what it showed before, which the first one's canvas does not.
C18_Witness ==
    \E c1, c2 \in Clients :
        /\ seen[c1].fired
        /\ Len(surface[c1]) = 2
        /\ ~seen[c2].fired
        /\ \E o \in OpsOn(surface[c2]) : o \notin OpsOn(surface[c1])

\* The load of image o, started by a replay of c, completes and draws.
LoadDraws(c, o) == o \in loads[c] /\ o \notin loads'[c] /\ o \in OpsOn(surface'[c])

\* C19: an image whose load a replay started is drawn, when the load
\* completes, only if the last snapshot the client received holds that
\* image; after the empty snapshot of a clear no load draws.
C19_StaleLoad ==
    [][\A c \in Clients : \A o \in loads[c] : LoadDraws(c, o) =>
          /\ seen[c].snapshot # <<>>
          /\ \E i \in DOMAIN seen[c].snapshot :
                /\ IsImage(seen[c].snapshot[i].data)
                /\ ImageOp(seen[c].snapshot[i].data) = o]_vars

\* No publish, clear or snapshot delivery is under way anywhere.
Quiescent ==
    /\ inflight = {}
    /\ \A c \in Clients : clearPc[c] = "idle"
    /\ \A c \in Clients : live[c] => seen[c] = Snap(Window(docs))

\* C20: whenever nothing is under way, the drawingData of every subscribed
\* client is the collection's window.
C20_QuiescentAgreement ==
    Quiescent =>
        \A c \in Clients : live[c] =>
            /\ Len(drawingData[c]) = Len(Window(docs))
            /\ \A i \in DOMAIN drawingData[c] : drawingData[c][i] = Window(docs)[i].data

\* C21: every request a client sends to the store carries an author that
\* is set and is the identity the client's session has at that moment.
C21_Attribution ==
    [][\A req \in inflight' \ inflight :
          /\ req.data.userId # NoUser
          /\ req.data.userId = userId[req.from]]_vars

\* The requests the step sends.
Sent == inflight' \ inflight
White == "#ffffff"

\* C22: a step draws a line or sends a segment only while a drag is under
\* way; a drag-start records its point; the segment of a drag-move starts
\* where the drag started or the previous segment ended and ends at the
\* pointer, where the next one will start; the segment sent has the
\* endpoints, size and color of the line drawn locally, white with the
\* eraser and the brush color otherwise.
C22_DragStateMachine ==
    [][\A c \in Clients :
          /\ (surface'[c] # surface[c] \/ \E req \in Sent : req.from = c) => isDrawing[c]
          /\ (~isDrawing[c] /\ isDrawing'[c]) => lastXY'[c] \in DragStarts
          /\ \A req \in Sent : req.from = c =>
                /\ Sent = {req}
                /\ req.kind = "stroke"
                /\ <<req.data.x1, req.data.y1>> = lastXY[c]
                /\ <<req.data.x2, req.data.y2>> = lastXY'[c]
                /\ <<req.data.x2, req.data.y2>> \in PenMoves
                /\ req.data.size = brushSize[c]
                /\ req.data.color = (IF currentTool[c] = "eraser" THEN White ELSE brushColor[c])
                /\ surface'[c] # <<>>
                /\ LET o == surface'[c][Len(surface'[c])] IN
                      /\ o.op = "line"
                      /\ <<o.x1, o.y1, o.x2, o.y2>> =
                            <<req.data.x1, req.data.y1, req.data.x2, req.data.y2>>
                      /\ o.size = req.data.size
                      /\ o.color = req.data.color]_vars

\* Two segments of one drag have been sent: the first from the drag-start
\* point in red, the second from the first one's end with the eraser, in
\* white and another size.
C22_Witness ==
    \E r1, r2 \in inflight :
        /\ <<r1.data.x1, r1.data.y1>> \in DragStarts
        /\ r1.data.color = "#ff0000"
        /\ <<r2.data.x1, r2.data.y1>> = <<r1.data.x2, r1.data.y2>>
        /\ r2.data.color = White
        /\ r2.data.size # r1.data.size
        /\ currentTool[r2.from] = "eraser"
        /\ isDrawing[r2.from]

\* Little-endian readers of the returned bytes.
U16At(bytes, off) == bytes[off + 1] + 256 * bytes[off + 2]
U32At(bytes, off) == U16At(bytes, off) + 65536 * U16At(bytes, off + 2)
S16At(bytes, off) ==
    IF U16At(bytes, off) >= 32768 THEN U16At(bytes, off) - 65536
    ELSE U16At(bytes, off)

\* C23: for n 16-bit mono samples and sample rate r, pcmToWav returns
\* exactly 44 + 2n bytes; the header records RIFF chunk size 36 + 2n,
\* format 1 (PCM), 1 channel, sample rate r, byte rate 2r, block alignment
\* 2, 16 bits per sample and data size 2n; the samples follow in order,
\* each as a little-endian signed 16-bit value.
C23_WavContainer ==
    wav # <<>> =>
        LET n == Len(pcmData) IN
        /\ Len(wav) = 44 + 2 * n
        /\ \A i \in DOMAIN wav : wav[i] \in 0..255
        /\ U32At(wav, 4) = 36 + 2 * n
        /\ U16At(wav, 20) = 1
        /\ U16At(wav, 22) = 1
        /\ U32At(wav, 24) = sampleRate
        /\ U32At(wav, 28) = 2 * sampleRate
        /\ U16At(wav, 32) = 2
        /\ U16At(wav, 34) = 16
        /\ U32At(wav, 40) = 2 * n
        /\ \A i \in 1..n : S16At(wav, 44 + 2 * (i - 1)) = pcmData[i]

\* A converted buffer of two different samples, one negative, whose bytes
\* differ.
C23_Witness ==
    /\ wav # <<>>
    /\ Len(pcmData) >= 2
    /\ pcmData[1] = 258
    /\ pcmData[2] = -32768
    /\ sampleRate = 44100
====
